---- MODULE Spec2Model ----
(***************************************************************************)
(* Connection lifecycle of openhiven.py: HivenClient.connect()/close()     *)
(* and the find_...() lookups of the cache (client/hivenclient.py),        *)
(* Connection.connect()/close() (gateway/__init__.py) and the request      *)
(* transport HTTPClient (gateway/http.py).                                 *)
(* The stream session, the heartbeat monitor and the                       *)
(* dispatch queue (websocket.py, messagebroker.py) are not part of the     *)
(* sources at hand: they appear as the three loops that gather() runs, the *)
(* flags Connection reads from them, and spec-modelled queue operations.   *)
(*                                                                         *)
(* One action is one run of a coroutine between two suspension points      *)
(* (await): asyncio runs everything else atomically.                       *)
(***************************************************************************)
EXTENDS Integers, FiniteSets, Sequences, TLC

\* ---------------------------------------------------------------- bounds
MaxTokenLen == 3      \* tokens are modelled by their length, 0..MaxTokenLen
MaxAttempts == 2      \* iterations of the restart loop per connect()
MaxConnects == 1      \* calls of HivenClient.connect()
MaxQueue    == 1      \* envelopes pending in the dispatch queue
MaxInflight == 1      \* handler tasks in flight
MaxEnvelopes == 3     \* envelopes a session receives, where their order counts
MaxCopies == 2        \* dicts the find_...() calls hand out

\* ------------------------------------------------------------- constants
None == -1            \* Python None, for tokens
UserTokenLen == 2     \* int(os.getenv("USER_TOKEN_LEN"))
BotTokenLen  == 3     \* int(os.getenv("BOT_TOKEN_LEN"))

Tokens == {None} \cup (0..MaxTokenLen)
EnvTokens == {None, UserTokenLen}

Loops == {"listening_loop", "keep_alive", "message_broker"}

\* What an awaited step of an attempt can end with.  "Exception" stands for
\* every Exception subclass no earlier except clause names (among them
\* WebSocketFailedError and KeepAliveError).
Raised == {"KeyboardInterrupt", "TimeoutError", "RestartSessionError",
           "WebSocketClosedError", "Exception"}

\* gateway/__init__.py 184-186 and 212: what loop l can end with; the
\* heartbeat monitor also exits with KeepAliveError (spec 4.3).
LoopRaised(l) ==
    IF l = "keep_alive" THEN Raised \cup {"KeepAliveError"} ELSE Raised

AttemptPcs  == {"create", "send_auth", "gather"}
TeardownPcs == {"td_http", "td_keep_alive", "td_wait"}

VARIABLES
    _token,             \* HivenClient._token
    storage_token,      \* HivenClient.storage['token']
    calls,              \* number of HivenClient.connect() calls so far
    hc_result,          \* how the last HivenClient.connect() ended
    restart,            \* the restart argument of the running connect()
    pc,                 \* where Connection.connect() is suspended
    connection_status,  \* Connection._connection_status
    _closing, _closed, _force_closing,   \* Connection flags
    _ws,                \* Connection._ws: 0 is None, n the session of attempt n
    attempts,           \* iterations of the while loop entered by this connect()
    last_exc,           \* what the attempt that ended last ended with
    pending_exc,        \* exception that leaves connect() once finally is done
    http_session,       \* HTTPClient.session ("no_http": Connection.http is None)
    http_ready,         \* HTTPClient.http_ready
    http_response,      \* what http.connect() returned, until connect() goes on
    loops,              \* loops[l]: the task of loop l of session _ws is running
    socket_closed,      \* _ws.socket.closed
    pending, inflight,  \* dispatch queue of _ws: pending envelopes, handlers in flight
    close_pc,           \* where Connection.close() is suspended
    close_ws,           \* the session whose socket that close() is closing
    close_result,       \* how the last close() ended
    close_requested,    \* history: close() was called since this connect() began
    close_in_handler,   \* the running close() is awaited by a handler in flight
    token_arg,          \* the token argument of connect(), until its first await
    req_method,         \* the last call of the request transport: its method,
    req_case,           \*   what the server or the event loop did to it,
    req_ready,          \*   http_ready when it was made,
    req_result,         \*   and what the caller got
    queue_events,       \* HivenClient._queue_events: sequential dispatch
    mb_queue,           \* dispatch queue of _ws: the pending envelopes, in order
    mb_active,          \* envelopes whose handler is running
    mb_invoked,         \* history: envelopes in the order their handlers were invoked
    mb_received,        \* envelopes the session has enqueued; they are numbered 1, 2, ...
    mb_failed,          \* history: handlers that ended with an exception
    created,            \* history: the session create_from_client() made last
    objects,            \* the dict objects of the cache and of its callers
    found               \* the dict the last find_...() returned (0: None, or none yet)

conn_vars == <<connection_status, _closing, _closed, _force_closing, _ws>>
vars == <<_token, storage_token, calls, hc_result, restart, pc,
          connection_status, _closing, _closed, _force_closing, _ws, attempts,
          last_exc, pending_exc, http_session, http_ready, http_response, loops,
          socket_closed, pending, inflight, close_pc, close_ws, close_result,
          close_requested, close_in_handler, token_arg, req_method, req_case,
          req_ready, req_result, queue_events, mb_queue, mb_active,
          mb_invoked, mb_received, mb_failed, created, objects, found>>
request_vars == <<req_method, req_case, req_ready, req_result>>
broker_vars == <<queue_events, mb_queue, mb_active, mb_invoked, mb_received,
                 mb_failed>>
cache_vars == <<objects, found>>

\* ------------------------------------------------- HivenClient.connect()
\* hivenclient.py 201-205: the token argument, else the environment's; it is
\* stored only when no token was stored before.
ResolveToken(cur, arg, env) ==
    LET token == IF arg = None THEN env ELSE arg
    IN  IF cur = None /\ token # None THEN token ELSE cur

\* A validation that forgets the length test.
TokenAccepted_NoLength(t) == t # None /\ t # 0

\* hivenclient.py 216-222: neither of the two InvalidTokenError branches.
TokenAccepted(t) ==
    /\ ~(t = None \/ t = 0)
    /\ t \in {UserTokenLen, BotTokenLen}

\* ------------------------------------------------ Connection.connect()
\* A restart loop that does not look at the state.
WhileCondition_Always(status) == TRUE

\* gateway/__init__.py 174: the condition of the restart loop.
WhileCondition(status) == status = "OPENING"

\* The clause for WebSocketClosedError raises again instead of continuing.
ExceptClause_ClosedReraised(e) ==
    CASE e = "KeyboardInterrupt"    -> "reraise"
      [] e = "TimeoutError"         -> "log"
      [] e = "RestartSessionError"  -> "log"
      [] e = "WebSocketClosedError" -> "reraise"
      [] e = "Exception"            -> "general"
      [] e = "KeepAliveError"       -> "general"
      [] OTHER                      -> "none"

\* The timeout is handled by the general clause instead of its own.
ExceptClause_TimeoutGeneral(e) ==
    CASE e = "KeyboardInterrupt"    -> "reraise"
      [] e = "TimeoutError"         -> "general"
      [] e = "RestartSessionError"  -> "log"
      [] e = "WebSocketClosedError" -> "continue"
      [] e = "Exception"            -> "general"
      [] e = "KeepAliveError"       -> "general"
      [] OTHER                      -> "none"

\* gateway/__init__.py 188-212: the except clause that catches what an
\* attempt ended with ("return": the three loops returned and gather() with
\* them, no clause runs).
ExceptClause(e) ==
    CASE e = "KeyboardInterrupt"    -> "reraise"
      [] e = "TimeoutError"         -> "log"
      [] e = "RestartSessionError"  -> "log"
      [] e = "WebSocketClosedError" -> "continue"
      [] e = "Exception"            -> "general"
      [] e = "KeepAliveError"       -> "general"
      [] OTHER                      -> "none"

\* The general clause never raises: restart false retries as well.
GeneralClauseRaises_Never(r) == FALSE

\* The general clause raises whatever restart is.
GeneralClauseRaises_Always(r) == TRUE

\* gateway/__init__.py 226-230: the general clause raises RuntimeError only
\* when restart is False.
GeneralClauseRaises(r) == r = FALSE

\* gateway/__init__.py 233: the status the end of an iteration resets to.
StatusAfterIteration == "OPENING"

\* gateway/__init__.py 184-186: asyncio.gather() without return_exceptions
\* hands the first exception to its awaiter and leaves the other awaitables
\* running; it returns once all of them have returned.
GatherOnRaise(ls, l) == [ls EXCEPT ![l] = FALSE]
GatherReturns(ls) == \A l \in Loops : ~ls[l]

\* gateway/__init__.py 160-162: Connection.socket_closed, True without a
\* session.
SocketClosedProp(ws, closed) == IF ws = 0 THEN TRUE ELSE closed

\* gateway/__init__.py 283-290: _wait_until_ws_finished() stops waiting.
WsFinished(ws, running, closed) ==
    ~(ws # 0 /\ running) /\ SocketClosedProp(ws, closed)

\* The attributes of a MessageBroker object (spec 3, Dispatch Queue State,
\* and 4.4): gateway/__init__.py 257 looks one up by name.
MessageBrokerAttrs == {"running", "run", "stop", "enqueue"}

\* gateway/__init__.py 257: getattr(self.message_broker, 'message_broker', None)
CloseLoopGuard(ws) == ws # 0 /\ "message_broker" \in MessageBrokerAttrs

\* gateway/__init__.py 244-249: the finally block up to its first await.
\* exc is what leaves connect() once the block is done ("none": it returns).
EnterFinally(exc) ==
    /\ _closing' = TRUE
    /\ connection_status' = "CLOSING"
    /\ pending_exc' = exc
    /\ pc' = "td_http"
    /\ UNCHANGED <<attempts, _closed, _force_closing, _ws>>

\* gateway/__init__.py 174-175: back at the loop condition with the given
\* status; a true condition enters the next iteration.
NextIteration(status) ==
    IF WhileCondition(status)
    THEN /\ attempts < MaxAttempts
         /\ attempts' = attempts + 1
         /\ pc' = "create"
         /\ connection_status' = status
         /\ UNCHANGED <<_closing, _closed, _force_closing, _ws, pending_exc>>
    ELSE EnterFinally("none")

\* gateway/__init__.py 188-243: an attempt ends with e.
AttemptEnds(e) ==
    /\ last_exc' = e
    /\ CASE ExceptClause(e) = "reraise"  -> EnterFinally("none")
         [] ExceptClause(e) = "log"      -> NextIteration(StatusAfterIteration)
         [] ExceptClause(e) = "continue" -> NextIteration(connection_status)
         [] ExceptClause(e) = "general"  ->
                IF GeneralClauseRaises(restart)
                THEN EnterFinally("SessionCreateError")
                ELSE NextIteration(StatusAfterIteration)
         [] OTHER                        -> NextIteration(StatusAfterIteration)

\* HivenClient.connect() swallows whatever Connection.connect() raises.
LeaveConnect_Swallow(exc) ==
    /\ pc' = "idle"
    /\ hc_result' = "returned"

\* connect() is left: hivenclient.py 224-243 hands SessionCreateError on
\* and wraps any other exception in HivenConnectionError.
LeaveConnect(exc) ==
    /\ pc' = "idle"
    /\ hc_result' = CASE exc = "none"               -> "returned"
                      [] exc = "SessionCreateError" -> "SessionCreateError"
                      [] OTHER                      -> "HivenConnectionError"

\* hivenclient.py 200-243 and gateway/__init__.py 169-172: connect(token,
\* restart=r) with os.getenv('HIVEN_TOKEN') = env, up to its first
\* suspension.  With sess_ok that is the identity request inside
\* http.connect() (gateway/http.py 57-59).  Without, ClientSession() raises:
\* the handler of http.connect() fails on session None (64), the finally
\* block of Connection.connect() calls http.close(), which fails on session
\* None as well and raises HTTPError (75-79), and connect() is over before
\* anything was awaited.
ClientConnect(arg, env, r, sess_ok) ==
    /\ pc = "idle"
    /\ calls < MaxConnects
    /\ calls' = calls + 1
    /\ token_arg' = arg
    /\ _token' = ResolveToken(_token, arg, env)
    /\ storage_token' = _token'
    /\ IF TokenAccepted(_token')
       THEN /\ restart' = r
            /\ http_response' = "none"
            /\ attempts' = 0
            /\ last_exc' = "none"
            /\ close_requested' = FALSE
            /\ UNCHANGED <<_closed, _force_closing, _ws>>
            /\ IF sess_ok
               THEN /\ hc_result' = "running"
                    /\ connection_status' = "OPENING"
                    /\ http_session' = "open"
                    /\ http_ready' = TRUE
                    /\ pc' = "http_connect"
                    /\ pending_exc' = "none"
                    /\ UNCHANGED _closing
               ELSE /\ http_session' = "None"
                    /\ http_ready' = FALSE
                    /\ _closing' = TRUE
                    /\ connection_status' = "CLOSING"
                    /\ pending_exc' = "SessionCreateError"
                    /\ LeaveConnect("HTTPError")
       ELSE /\ hc_result' = "InvalidTokenError"
            /\ UNCHANGED <<restart, pc, conn_vars, attempts, last_exc,
                           pending_exc, http_session, http_ready,
                           http_response, close_requested>>
    /\ UNCHANGED <<loops, socket_closed, pending, inflight, close_pc,
                   close_ws, close_result, close_in_handler, request_vars,
                   broker_vars, cache_vars, created>>

\* gateway/http.py 59-66: the ways the identity request of http.connect()
\* ends.
HttpOutcomes == {"response", "None", "raise", "interrupt"}

\* gateway/http.py 59-66 and gateway/__init__.py 172-174: http.connect()
\* ends.  "response": the identity; "None": error status or error body,
\* request() returns None; "raise": the request raises, the session is
\* closed and UnableToCreateSession raised; "interrupt": a
\* KeyboardInterrupt, which line 62 does not catch and
\* gateway/__init__.py 235 swallows.
HttpConnectDone(outcome) ==
    /\ pc = "http_connect"
    /\ token_arg' = None
    /\ CASE outcome \in {"response", "None"} ->
                /\ UNCHANGED <<http_session, http_ready>>
                /\ NextIteration(connection_status)
         [] outcome = "raise" ->
                /\ http_session' = "closed"
                /\ http_ready' = FALSE
                /\ EnterFinally("SessionCreateError")
         [] OTHER ->
                /\ UNCHANGED <<http_session, http_ready>>
                /\ EnterFinally("none")
    /\ UNCHANGED <<close_in_handler, request_vars, broker_vars, cache_vars,
                   created>>
    /\ http_response' = outcome
    /\ last_exc' = IF outcome = "interrupt" THEN "KeyboardInterrupt"
                                            ELSE last_exc
    /\ UNCHANGED <<_token, storage_token, calls, hc_result,
                   restart, loops,  socket_closed, pending,
                   inflight, close_pc, close_ws, close_result,
                   close_requested>>

client_vars == <<_token, storage_token, calls, hc_result, restart>>
http_vars == <<http_session, http_ready, http_response>>
close_vars == <<close_pc, close_ws, close_result, close_requested>>
queue_vars == <<pending, inflight>>

\* One session per connect(), used again by every iteration.
SessionId_PerConnect(c, n) == (c - 1) * MaxAttempts + 1

\* gateway/__init__.py 176-180: every create_from_client() makes a new
\* HivenWebSocket object; the n-th of the c-th connect() is numbered here.
SessionId(c, n) == (c - 1) * MaxAttempts + n

\* spec 4.3: stop() cancels the timer and the monitor reports inactive.
KeepAliveStop(ls) == [ls EXCEPT !["keep_alive"] = FALSE]

\* spec 4.4: stop(force) ends the run loop.
CloseLoop(ls) == [ls EXCEPT !["message_broker"] = FALSE]

\* gateway/__init__.py 176-180: create_from_client() returns within the
\* timeout and self._ws is replaced.  Nothing refers to the session it
\* replaces any more: the tasks of that session which still run are out of
\* the Connection's reach, and of this model's.
CreateDone ==
    /\ mb_queue' = <<>>
    /\ mb_active' = {}
    /\ mb_invoked' = <<>>
    /\ mb_received' = 0
    /\ mb_failed' = 0
    /\ UNCHANGED <<request_vars, queue_events, cache_vars>>
    /\ close_in_handler' = FALSE
    /\ UNCHANGED token_arg
    /\ pc = "create"
    /\ _ws' = SessionId(calls, attempts)
    /\ created' = _ws'
    /\ loops' = [l \in Loops |-> FALSE]
    /\ socket_closed' = FALSE
    /\ pending' = 0
    /\ inflight' = 0
    /\ pc' = "send_auth"
    /\ last_exc' = "none"
    /\ http_response' = "none"
    /\ UNCHANGED <<client_vars, http_session, http_ready, close_vars,
                   connection_status, _closing, _closed, _force_closing,
                   attempts, pending_exc>>

\* gateway/__init__.py 180: wait_for() raises (TimeoutError after 30 s, or
\* what create_from_client() raised).
CreateFails(e) ==
    /\ UNCHANGED <<request_vars, broker_vars, cache_vars>>
    /\ UNCHANGED <<close_in_handler, token_arg, created>>
    /\ pc = "create"
    /\ AttemptEnds(e)
    /\ http_response' = "none"
    /\ UNCHANGED <<client_vars, http_session, http_ready, close_vars,
                   queue_vars, loops,  socket_closed>>

\* gateway/__init__.py 181-186: send_auth() returns, _closed is cleared and
\* gather() starts the three loops.
SendAuthDone ==
    /\ UNCHANGED <<request_vars, broker_vars, cache_vars>>
    /\ UNCHANGED <<close_in_handler, token_arg, created>>
    /\ pc = "send_auth"
    /\ _closed' = FALSE
    /\ loops' = [l \in Loops |-> TRUE]
    /\ pc' = "gather"
    /\ UNCHANGED <<client_vars, http_vars, close_vars, queue_vars,
                   connection_status, _closing, _force_closing, _ws, attempts,
                   last_exc, pending_exc,  socket_closed>>

\* gateway/__init__.py 181: send_auth() raises.
SendAuthFails(e) ==
    /\ UNCHANGED <<request_vars, broker_vars, cache_vars>>
    /\ UNCHANGED <<close_in_handler, token_arg, created>>
    /\ pc = "send_auth"
    /\ AttemptEnds(e)
    /\ UNCHANGED <<client_vars, http_vars, close_vars, queue_vars, loops,  socket_closed>>

\* gateway/__init__.py 184-186: loop l of the session returns.  gather()
\* returns when it was the last of the three; a loop nobody awaits any more
\* just ends.
LoopReturns(l) ==
    /\ UNCHANGED <<request_vars, broker_vars, cache_vars>>
    /\ UNCHANGED <<close_in_handler, token_arg, created>>
    /\ _ws # 0
    /\ loops[l]
    /\ loops' = [loops EXCEPT ![l] = FALSE]
    /\ IF pc = "gather" /\ GatherReturns(loops')
       THEN AttemptEnds("return")
       ELSE UNCHANGED <<pc, conn_vars, attempts, last_exc, pending_exc>>
    /\ UNCHANGED <<client_vars, http_vars, close_vars, queue_vars, 
                   socket_closed>>

\* gateway/__init__.py 184-186: loop l raises e while gather() is awaited.
LoopRaises(l, e) ==
    /\ UNCHANGED <<request_vars, broker_vars, cache_vars>>
    /\ UNCHANGED <<close_in_handler, token_arg, created>>
    /\ pc = "gather"
    /\ loops[l]
    /\ loops' = GatherOnRaise(loops, l)
    /\ AttemptEnds(e)
    /\ UNCHANGED <<client_vars, http_vars, close_vars, queue_vars, 
                   socket_closed>>

\* gateway/__init__.py 261-264: the state is set to CLOSED and connect()
\* waits for the session to finish.
SetClosed ==
    /\ connection_status' = "CLOSED"
    /\ _closed' = TRUE
    /\ pc' = "td_wait"

\* gateway/http.py 68-79 and gateway/__init__.py 248-251: http.close()
\* ends; when it raises HTTPError the rest of the finally block is skipped.
TdHttpClose(ok) ==
    /\ UNCHANGED <<request_vars, broker_vars, cache_vars>>
    /\ UNCHANGED <<close_in_handler, token_arg, created>>
    /\ pc = "td_http"
    /\ ok => http_session # "None"
    /\ IF ok
       THEN /\ http_session' = "closed"
            /\ http_ready' = FALSE
            /\ IF _ws # 0
               THEN /\ pc' = "td_keep_alive"
                    /\ UNCHANGED <<connection_status, _closed>>
               ELSE SetClosed
            /\ UNCHANGED hc_result
       ELSE /\ LeaveConnect("HTTPError")
            /\ UNCHANGED <<http_session, http_ready, connection_status,
                           _closed>>
    /\ http_response' = "none"
    /\ UNCHANGED <<_token, storage_token, calls, restart,
                   close_vars, queue_vars, _closing,
                   _force_closing, _ws, attempts, last_exc, pending_exc, loops,  socket_closed>>

\* gateway/__init__.py 251-264: keep_alive.stop() has returned and the
\* monitor reports inactive (spec 4.3); close_loop() runs under its guard.
TdKeepAliveStopped ==
    /\ UNCHANGED <<request_vars, broker_vars, cache_vars>>
    /\ UNCHANGED <<close_in_handler, token_arg, created>>
    /\ pc = "td_keep_alive"
    /\ loops' = IF CloseLoopGuard(_ws)
                THEN CloseLoop(KeepAliveStop(loops))
                ELSE KeepAliveStop(loops)
    /\ inflight' = IF CloseLoopGuard(_ws) THEN 0 ELSE inflight
    /\ SetClosed
    /\ UNCHANGED <<client_vars, http_vars, close_vars, pending, _closing,
                   _force_closing, _ws, attempts, last_exc, pending_exc,  socket_closed>>

\* gateway/__init__.py 264-268 and 82-89: the wait is over, the session is
\* dropped, the defaults are set and connect() returns or raises.
TdWaitDone ==
    /\ UNCHANGED <<request_vars, broker_vars, cache_vars>>
    /\ close_in_handler' = FALSE
    /\ UNCHANGED <<token_arg, created>>
    /\ pc = "td_wait"
    /\ WsFinished(_ws, loops["message_broker"], socket_closed)
    /\ connection_status' = "CLOSED"
    /\ _closing' = FALSE
    /\ _closed' = FALSE
    /\ _force_closing' = FALSE
    /\ _ws' = 0
    /\ loops' = [l \in Loops |-> FALSE]
    /\ socket_closed' = TRUE
    /\ pending' = 0
    /\ inflight' = 0
    /\ LeaveConnect(pending_exc)
    /\ UNCHANGED <<_token, storage_token, calls, restart,
                   http_vars, close_vars, attempts, last_exc, pending_exc>>

\* -------------------------------------------------- Connection.close()
\* A close() that waits for the handlers in flight as well.
CloseWaits_ForHandlers(ws, closed, handlers) ==
    ~SocketClosedProp(ws, closed) \/ handlers > 0

\* gateway/__init__.py 319-320: the condition close() sleeps on, given the
\* session, its socket's flag and the number of handlers in flight.
CloseWaits(ws, closed, handlers) == ~SocketClosedProp(ws, closed)

\* gateway/__init__.py 306-320 (hivenclient.py 245-257): close(force) up to
\* its first await, called by the application or by a handler in flight;
\* without a session there is no socket to close and socket_closed is True.
Close(force, in_handler) ==
    /\ UNCHANGED <<request_vars, broker_vars, cache_vars>>
    /\ close_pc = "idle"
    /\ in_handler => (_ws # 0 /\ inflight > 0)
    /\ close_in_handler' = in_handler
    /\ UNCHANGED <<token_arg, created>>
    /\ connection_status' = "CLOSING"
    /\ _closing' = TRUE
    /\ _force_closing' = force
    /\ close_requested' = (pc # "idle")
    /\ IF _ws # 0
       THEN /\ close_pc' = "socket_close"
            /\ close_ws' = _ws
            /\ close_result' = "none"
       ELSE /\ close_pc' = "idle"
            /\ close_ws' = 0
            /\ close_result' = "returned"
    /\ UNCHANGED <<client_vars, http_vars, queue_vars, pc, _closed, _ws,
                   attempts, last_exc, pending_exc, loops, 
                   socket_closed>>

\* gateway/__init__.py 317-330: socket.close() ends.  It closed the socket
\* of the session close() found, which need not be the session of now.
CloseSocketDone(ok) ==
    /\ UNCHANGED <<request_vars, broker_vars, cache_vars>>
    /\ UNCHANGED <<token_arg, created>>
    /\ close_pc = "socket_close"
    /\ IF ok
       THEN /\ socket_closed' = IF close_ws = _ws THEN TRUE ELSE socket_closed
            /\ IF CloseWaits(_ws, socket_closed', inflight)
               THEN close_pc' = "wait_closed" /\ close_result' = "none"
               ELSE close_pc' = "idle" /\ close_result' = "returned"
       ELSE /\ close_pc' = "idle"
            /\ close_result' = "RuntimeError"
            /\ UNCHANGED socket_closed
    /\ close_ws' = IF close_pc' = "idle" THEN 0 ELSE close_ws
    /\ close_in_handler' = (close_in_handler /\ close_pc' # "idle")
    /\ UNCHANGED <<client_vars, http_vars, queue_vars, pc, conn_vars,
                   attempts, last_exc, pending_exc, loops, 
                   close_requested>>

\* gateway/__init__.py 319-320: the wait for socket_closed is over.
CloseWaitDone ==
    /\ UNCHANGED <<request_vars, broker_vars, cache_vars>>
    /\ UNCHANGED <<token_arg, created>>
    /\ close_pc = "wait_closed"
    /\ ~CloseWaits(_ws, socket_closed, inflight)
    /\ close_pc' = "idle"
    /\ close_in_handler' = FALSE
    /\ close_ws' = 0
    /\ close_result' = "returned"
    /\ UNCHANGED <<client_vars, http_vars, queue_vars, pc, conn_vars,
                   attempts, last_exc, pending_exc, loops, 
                   socket_closed, close_requested>>

\* ------------------------------------------- stream and dispatch queue
\* The remote end closes the stream.
RemoteClose ==
    /\ UNCHANGED <<request_vars, broker_vars, cache_vars>>
    /\ UNCHANGED <<close_in_handler, token_arg, created>>
    /\ _ws # 0
    /\ ~socket_closed
    /\ socket_closed' = TRUE
    /\ UNCHANGED <<client_vars, http_vars, close_vars, queue_vars, pc,
                   conn_vars, attempts, last_exc, pending_exc, loops>>

\* spec 4.2: the listening loop decodes a frame and pushes the envelope.
Enqueue ==
    /\ UNCHANGED <<request_vars, broker_vars, cache_vars>>
    /\ UNCHANGED <<close_in_handler, token_arg, created>>
    /\ _ws # 0
    /\ loops["listening_loop"]
    /\ ~socket_closed
    /\ pending < MaxQueue
    /\ pending' = pending + 1
    /\ UNCHANGED <<client_vars, http_vars, close_vars, inflight, pc,
                   conn_vars, attempts, last_exc, pending_exc, loops, 
                   socket_closed>>

\* spec 4.4: run() dequeues one envelope and invokes its handler.
Dequeue ==
    /\ UNCHANGED <<request_vars, broker_vars, cache_vars>>
    /\ UNCHANGED <<close_in_handler, token_arg, created>>
    /\ _ws # 0
    /\ loops["message_broker"]
    /\ pending > 0
    /\ inflight < MaxInflight
    /\ pending' = pending - 1
    /\ inflight' = inflight + 1
    /\ UNCHANGED <<client_vars, http_vars, close_vars, pc, conn_vars,
                   attempts, last_exc, pending_exc, loops, 
                   socket_closed>>

\* spec 4.4: a handler finishes; the handler that awaits close() does not
\* before close() has returned.
HandlerDone ==
    /\ UNCHANGED <<request_vars, broker_vars, cache_vars>>
    /\ UNCHANGED <<close_in_handler, token_arg, created>>
    /\ inflight > (IF close_in_handler THEN 1 ELSE 0)
    /\ inflight' = inflight - 1
    /\ UNCHANGED <<client_vars, http_vars, close_vars, pending, pc,
                   conn_vars, attempts, last_exc, pending_exc, loops, 
                   socket_closed>>

\* --------------------------------------------------------- dispatch queue
\* The queue in full, where the order of the envelopes counts; the actions
\* above only count them.

\* The run loop takes the envelope enqueued last.
NextEnvelope_Last(q) == q[Len(q)]

\* spec 4.4: the pending envelopes are insertion-ordered and run() dequeues
\* the first.
NextEnvelope(q) == Head(q)

\* Sequential mode does not wait for the running handler either.
MayDispatch_Always(sequential, active) == TRUE

\* spec 4.4: in sequential mode (hivenclient.py 49-52: queue_events True)
\* handlers run one at a time; in concurrent mode each envelope's handlers
\* are scheduled as soon as it is dequeued.
MayDispatch(sequential, active) == sequential => active = {}

\* An exception of a handler ends the run loop.
LoopAfterHandler_Aborts(ls, raised) ==
    IF raised THEN [ls EXCEPT !["message_broker"] = FALSE] ELSE ls

\* spec 4.4: on handler exception, log and continue.
LoopAfterHandler(ls, raised) == ls

\* spec 4.2 and 4.4: the listening loop decodes the next frame and enqueues
\* its envelope.
BrokerEnqueue ==
    /\ _ws # 0
    /\ loops["listening_loop"]
    /\ ~socket_closed
    /\ mb_received < MaxEnvelopes
    /\ mb_received' = mb_received + 1
    /\ mb_queue' = Append(mb_queue, mb_received')
    /\ UNCHANGED <<client_vars, http_vars, close_vars, queue_vars, pc,
                   conn_vars, attempts, last_exc, pending_exc, loops,
                   socket_closed, close_in_handler, token_arg, request_vars,
                   cache_vars, created,
                   queue_events, mb_active, mb_invoked, mb_failed>>

\* spec 4.4: run() dequeues one envelope and invokes its handler.
BrokerDispatch ==
    /\ _ws # 0
    /\ loops["message_broker"]
    /\ mb_queue # <<>>
    /\ MayDispatch(queue_events, mb_active)
    /\ LET e == NextEnvelope(mb_queue)
       IN  /\ mb_queue' = SelectSeq(mb_queue, LAMBDA x : x # e)
           /\ mb_active' = mb_active \cup {e}
           /\ mb_invoked' = Append(mb_invoked, e)
    /\ UNCHANGED <<client_vars, http_vars, close_vars, queue_vars, pc,
                   conn_vars, attempts, last_exc, pending_exc, loops,
                   socket_closed, close_in_handler, token_arg, request_vars,
                   cache_vars, created,
                   queue_events, mb_received, mb_failed>>

\* spec 4.4: the handler of envelope e returns or raises.
BrokerHandlerEnds(e, raised) ==
    /\ e \in mb_active
    /\ mb_active' = mb_active \ {e}
    /\ mb_failed' = mb_failed + (IF raised THEN 1 ELSE 0)
    /\ loops' = LoopAfterHandler(loops, raised)
    /\ UNCHANGED <<client_vars, http_vars, close_vars, queue_vars, pc,
                   conn_vars, attempts, last_exc, pending_exc,
                   socket_closed, close_in_handler, token_arg, request_vars,
                   cache_vars, created,
                   queue_events, mb_queue, mb_invoked, mb_received>>

\* ----------------------------------------------------- request transport
\* gateway/http.py 163-275: the calls of the request transport.
Methods == {"request", "post", "patch", "delete"}

\* gateway/http.py 102-161: what happens to a request.  "ok": status 200 or
\* 202 and no error in the body; "error_status": another status;
\* "error_body": 200 or 202 with an error in the body; "empty": status 204;
\* "timeout": asyncio.TimeoutError; "exception": any other exception;
\* "cancelled": the awaiting task is cancelled.
RequestOutcomes == {"ok", "error_status", "error_body", "empty", "timeout",
                    "exception", "cancelled"}

\* gateway/http.py 102-161: what raw_request() hands to its caller.
RawRequestResult(ready, outcome) ==
    CASE outcome = "cancelled"                              -> "None"
      [] ~ready                                             -> "None"
      [] outcome = "ok"                                     -> "response"
      [] outcome \in {"error_status", "error_body", "empty"} -> "None"
      [] OTHER                                              -> "HTTPError"

\* gateway/http.py 163-275: request() decodes a response and hands None on;
\* post(), patch() and delete() return what raw_request() returned.
MethodResult(m, raw) ==
    IF m = "request" /\ raw = "response" THEN "json" ELSE raw

\* gateway/http.py 81-275: a call of the request transport, from its call to
\* its return.
Request(m, outcome) ==
    /\ http_session # "no_http"
    /\ req_method' = m
    /\ req_case' = outcome
    /\ req_ready' = http_ready
    /\ req_result' = MethodResult(m, RawRequestResult(http_ready, outcome))
    /\ UNCHANGED <<client_vars, http_vars, close_vars, queue_vars, pc,
                   conn_vars, attempts, last_exc, pending_exc, loops,
                   socket_closed, close_in_handler, token_arg, broker_vars,
                   cache_vars, created>>

\* ------------------------------------------------------------------ cache
\* hivenclient.py 381-609: the stores of the cache the find_...() methods
\* read, in the order of the methods: find_user, find_house, find_entity,
\* find_room, find_private_room, find_private_group_room, find_relationship.
StoreNames == <<"users", "houses", "entities", "rooms.house",
                "rooms.private.single", "rooms.private.group",
                "relationships">>
Stores == 1..Len(StoreNames)

\* The ids looked up: 1 is cached in every store, 2 in none.
Ids == {1, 2}

\* What a key of a dict can hold.
Values == {0, 1}

\* A dict object has a key with a plain value and a key whose value is
\* another dict (ref: the address of that object, 0 without).  objects[a]
\* is the object at address a; the cached dict of store s is at 2s-1 and
\* the dict nested in it at 2s.
NumCached == 2 * Len(StoreNames)

\* hivenclient.py 392, 428, 464, 499, 534, 569, 604: storage[...].get(id).
StorageGet(s, id) == IF id = 1 THEN 2 * s - 1 ELSE 0

\* hivenclient.py 394 (and 430, 466, 501, 536, 571, 606): dict(raw_data)
\* makes a new dict object whose keys hold the very values of raw_data:
\* the plain value, and the reference to the same nested dict.
DictCopy(objs, raw) == Append(objs, [scalar |-> objs[raw].scalar,
                                     ref |-> objs[raw].ref])

\* The cached entry of store s with everything in it.
CachedEntry(objs, s) ==
    LET o == objs[StorageGet(s, 1)]
    IN  [scalar |-> o.scalar,
         nested |-> IF o.ref = 0 THEN None ELSE objs[o.ref].scalar]

\* The cache after construction and the events that filled it.
InitCache ==
    /\ objects = [a \in 1..NumCached |->
                    IF a % 2 = 1 THEN [scalar |-> 0, ref |-> a + 1]
                                 ELSE [scalar |-> 0, ref |-> 0]]
    /\ found = 0

\* hivenclient.py 381-396 (417-432, ..., 591-609): find_...(id) on store s.
Find(s, id) ==
    /\ LET raw_data == StorageGet(s, id)
       IN  IF raw_data # 0
           THEN /\ Len(objects) < NumCached + MaxCopies
                /\ objects' = DictCopy(objects, raw_data)
                /\ found' = Len(objects')
           ELSE /\ found' = 0
                /\ UNCHANGED objects
    /\ UNCHANGED <<client_vars, http_vars, close_vars, queue_vars, pc,
                   conn_vars, attempts, last_exc, pending_exc, loops,
                   socket_closed, close_in_handler, token_arg, request_vars,
                   broker_vars, created>>

\* The caller assigns to a key of the dict it was given.
SetKey(v) ==
    /\ found # 0
    /\ objects' = [objects EXCEPT ![found].scalar = v]
    /\ UNCHANGED <<client_vars, http_vars, close_vars, queue_vars, pc,
                   conn_vars, attempts, last_exc, pending_exc, loops,
                   socket_closed, close_in_handler, token_arg, request_vars,
                   broker_vars, created, found>>

\* The caller assigns to a key of the dict nested in the dict it was given.
SetNestedKey(v) ==
    /\ found # 0
    /\ objects[found].ref # 0
    /\ objects' = [objects EXCEPT ![objects[found].ref].scalar = v]
    /\ UNCHANGED <<client_vars, http_vars, close_vars, queue_vars, pc,
                   conn_vars, attempts, last_exc, pending_exc, loops,
                   socket_closed, close_in_handler, token_arg, request_vars,
                   broker_vars, created, found>>

\* ------------------------------------------------------- specification
ConnectionStates == {"CLOSED", "OPENING", "OPEN", "CLOSING"}

TypeOK ==
    /\ _token \in Tokens /\ storage_token \in Tokens
    /\ calls \in 0..MaxConnects
    /\ hc_result \in {"none", "running", "returned", "InvalidTokenError",
                      "SessionCreateError", "HivenConnectionError"}
    /\ restart \in BOOLEAN
    /\ pc \in {"idle", "http_connect"} \cup AttemptPcs \cup TeardownPcs
    /\ connection_status \in ConnectionStates
    /\ _closing \in BOOLEAN /\ _closed \in BOOLEAN
    /\ _force_closing \in BOOLEAN
    /\ _ws \in 0..(MaxConnects * MaxAttempts)
    /\ attempts \in 0..MaxAttempts
    /\ last_exc \in Raised \cup {"KeepAliveError", "none", "return"}
    /\ pending_exc \in {"none", "SessionCreateError"}
    /\ http_session \in {"no_http", "None", "open", "closed"}
    /\ http_ready \in BOOLEAN
    /\ http_response \in {"none"} \cup HttpOutcomes
    /\ loops \in [Loops -> BOOLEAN]
    /\ socket_closed \in BOOLEAN
    /\ pending \in 0..MaxQueue /\ inflight \in 0..MaxInflight
    /\ close_pc \in {"idle", "socket_close", "wait_closed"}
    /\ close_ws \in 0..(MaxConnects * MaxAttempts)
    /\ close_result \in {"none", "returned", "RuntimeError"}
    /\ close_requested \in BOOLEAN
    /\ close_in_handler \in BOOLEAN
    /\ token_arg \in Tokens
    /\ req_method \in {"none"} \cup Methods
    /\ req_case \in {"none"} \cup RequestOutcomes
    /\ req_ready \in BOOLEAN
    /\ req_result \in {"none", "response", "json", "None", "HTTPError"}
    /\ queue_events \in BOOLEAN
    /\ mb_queue \in Seq(1..MaxEnvelopes) /\ Len(mb_queue) <= MaxEnvelopes
    /\ mb_active \subseteq 1..MaxEnvelopes
    /\ mb_invoked \in Seq(1..MaxEnvelopes) /\ Len(mb_invoked) <= MaxEnvelopes
    /\ mb_received \in 0..MaxEnvelopes
    /\ mb_failed \in 0..MaxEnvelopes
    /\ created \in 0..(MaxConnects * MaxAttempts)
    /\ Len(objects) \in NumCached..(NumCached + MaxCopies)
    /\ \A a \in 1..Len(objects) :
            objects[a].scalar \in Values /\ objects[a].ref \in 0..NumCached
    /\ found \in 0..(NumCached + MaxCopies)

\* hivenclient.py 60-70 and gateway/__init__.py 75-80: after construction,
\* but for the dispatch mode.
InitConnection ==
    /\ _token \in Tokens
    /\ storage_token = _token
    /\ calls = 0
    /\ hc_result = "none"
    /\ restart = FALSE
    /\ pc = "idle"
    /\ connection_status = "CLOSED"
    /\ _closing = FALSE
    /\ _closed = FALSE
    /\ _force_closing = FALSE
    /\ _ws = 0
    /\ attempts = 0
    /\ last_exc = "none"
    /\ pending_exc = "none"
    /\ http_session = "no_http"
    /\ http_ready = FALSE
    /\ http_response = "none"
    /\ loops = [l \in Loops |-> FALSE]
    /\ socket_closed = TRUE
    /\ pending = 0
    /\ inflight = 0
    /\ close_pc = "idle"
    /\ close_ws = 0
    /\ close_result = "none"
    /\ close_requested = FALSE
    /\ close_in_handler = FALSE
    /\ token_arg = None
    /\ req_method = "none"
    /\ req_case = "none"
    /\ req_ready = FALSE
    /\ req_result = "none"
    /\ mb_queue = <<>>
    /\ mb_active = {}
    /\ mb_invoked = <<>>
    /\ mb_received = 0
    /\ mb_failed = 0
    /\ created = 0

\* hivenclient.py 32: queue_events defaults to False.
Init == InitConnection /\ queue_events = FALSE /\ InitCache

Next ==
    \/ \E arg \in Tokens, env \in EnvTokens, r \in BOOLEAN, sess_ok \in BOOLEAN :
            ClientConnect(arg, env, r, sess_ok)
    \/ \E o \in HttpOutcomes : HttpConnectDone(o)
    \/ CreateDone
    \/ \E e \in Raised : CreateFails(e)
    \/ SendAuthDone
    \/ \E e \in Raised : SendAuthFails(e)
    \/ \E l \in Loops : LoopReturns(l)
    \/ \E l \in Loops : \E e \in LoopRaised(l) : LoopRaises(l, e)
    \/ \E ok \in BOOLEAN : TdHttpClose(ok)
    \/ TdKeepAliveStopped
    \/ TdWaitDone
    \/ \E force \in BOOLEAN, in_handler \in BOOLEAN : Close(force, in_handler)
    \/ \E ok \in BOOLEAN : CloseSocketDone(ok)
    \/ CloseWaitDone
    \/ RemoteClose
    \/ Enqueue
    \/ Dequeue
    \/ HandlerDone

Spec == Init /\ [][Next]_vars

\* The lifecycle alone: connect() and close() with a stream that carries no
\* envelope.
LifecycleNext ==
    \/ \E arg \in Tokens, env \in EnvTokens, r \in BOOLEAN, sess_ok \in BOOLEAN :
            ClientConnect(arg, env, r, sess_ok)
    \/ \E o \in HttpOutcomes : HttpConnectDone(o)
    \/ CreateDone
    \/ \E e \in Raised : CreateFails(e)
    \/ SendAuthDone
    \/ \E e \in Raised : SendAuthFails(e)
    \/ \E l \in Loops : LoopReturns(l)
    \/ \E l \in Loops : \E e \in LoopRaised(l) : LoopRaises(l, e)
    \/ \E ok \in BOOLEAN : TdHttpClose(ok)
    \/ TdKeepAliveStopped
    \/ TdWaitDone
    \/ \E force \in BOOLEAN : Close(force, FALSE)
    \/ \E ok \in BOOLEAN : CloseSocketDone(ok)
    \/ CloseWaitDone
    \/ RemoteClose

LifecycleSpec == Init /\ [][LifecycleNext]_vars

\* The request transport with the connects and closes that reach it, and the
\* calls made on it; no Stream Session comes about.
HttpNext ==
    \/ \E arg \in Tokens, env \in EnvTokens, r \in BOOLEAN, sess_ok \in BOOLEAN :
            ClientConnect(arg, env, r, sess_ok)
    \/ \E o \in HttpOutcomes : HttpConnectDone(o)
    \/ \E e \in Raised : CreateFails(e)
    \/ \E ok \in BOOLEAN : TdHttpClose(ok)
    \/ TdWaitDone
    \/ \E force \in BOOLEAN : Close(force, FALSE)
    \/ \E m \in Methods, o \in RequestOutcomes : Request(m, o)

HttpSpec == Init /\ [][HttpNext]_vars

\* hivenclient.py 32 and 63: the dispatch mode is chosen at construction.
DispatchInit == InitConnection /\ queue_events \in BOOLEAN /\ InitCache

\* The first attempt of a connect() up to its three loops, and the dispatch
\* queue of its session.
DispatchNext ==
    \/ \E arg \in Tokens, env \in EnvTokens, r \in BOOLEAN, sess_ok \in BOOLEAN :
            ClientConnect(arg, env, r, sess_ok)
    \/ \E o \in HttpOutcomes : HttpConnectDone(o)
    \/ CreateDone
    \/ SendAuthDone
    \/ BrokerEnqueue
    \/ BrokerDispatch
    \/ \E e \in 1..MaxEnvelopes, raised \in BOOLEAN : BrokerHandlerEnds(e, raised)

DispatchSpec == DispatchInit /\ [][DispatchNext]_vars

\* The cache and a caller of the find_...() methods.
CacheNext ==
    \/ \E s \in Stores, id \in Ids : Find(s, id)
    \/ \E v \in Values : SetKey(v)
    \/ \E v \in Values : SetNestedKey(v)

CacheSpec == Init /\ [][CacheNext]_vars

\* The event loop runs a task that can run: some step is taken whenever one
\* is possible.
FairSpec == Spec /\ WF_vars(Next)

\* ---------------------------------------------------------------- claims
\* The step ends an attempt: connect() was inside an iteration of the
\* restart loop and now starts the next one or enters the finally block.
AttemptEndStep ==
    /\ pc \in AttemptPcs
    /\ attempts' = attempts + 1 \/ pc' \in TeardownPcs

\* The step starts a further iteration, whose first act is to create a
\* Stream Session.
NewAttemptStep == pc' = "create" /\ attempts' = attempts + 1

\* Exceptions an attempt can raise (Exception subclasses).
Exceptions == {"TimeoutError", "RestartSessionError", "WebSocketClosedError",
               "Exception", "KeepAliveError"}

\* The steps C1 allows.
C1_Step ==
    (close_requested /\ pc \in AttemptPcs) => attempts' = attempts

\* C1: once close() was called while connect() runs, connect() leaves the
\* restart loop however the current attempt ends: it starts no further
\* attempt.
C1_CloseLeavesLoop == [][C1_Step]_vars

\* The claim's credentials that are malformed.
Malformed(t) == t = None \/ t = 0 \/ t \notin {UserTokenLen, BotTokenLen}

\* The steps C2 allows.
C2_Step ==
    (calls' = calls + 1 /\ Malformed(_token'))
      => /\ hc_result' = "InvalidTokenError"
         /\ pc' = "idle"
         /\ UNCHANGED <<connection_status, _ws, http_session, http_ready,
                        attempts>>

\* C2: a HivenClient.connect() whose credential is malformed raises
\* InvalidTokenError and Connection.connect() is not entered: no request
\* transport, no session, no attempt, and the Connection State is the one
\* it was.
C2_MalformedTokenRejected == [][C2_Step]_vars

\* C2 witness: a connect() with a malformed credential has raised, with the
\* Connection State still CLOSED.
C2_Witness ==
    /\ calls = 1
    /\ Malformed(_token)
    /\ hc_result = "InvalidTokenError"
    /\ connection_status = "CLOSED"

\* The steps C3 allows.
C3_Step ==
    (pc # "idle" /\ pc' = "idle" /\ last_exc = "Exception" /\ ~restart)
      => (hc_result' = "SessionCreateError" /\ connection_status' = "CLOSED")

\* C3: when an attempt raised an exception the general clause catches and
\* restart is false, connect() is left by raising SessionCreateError with
\* the Connection State CLOSED.
C3_FatalRaisesSessionCreateError == [][C3_Step]_vars

\* The steps C4 allows.
C4_Step ==
    (/\ AttemptEndStep
     /\ restart
     /\ ~close_requested
     /\ last_exc' = "WebSocketClosedError")
      => (NewAttemptStep /\ hc_result' = "running")

\* C4: with restart true and no close() called, an attempt that ends with
\* WebSocketClosedError is followed by a new attempt, and connect() goes on.
C4_CleanCloseRestarts == [][C4_Step]_vars

\* C4 witness: the second attempt was started by a WebSocketClosedError.
C4_Witness ==
    /\ pc = "create"
    /\ attempts = 2
    /\ restart
    /\ ~close_requested
    /\ last_exc = "WebSocketClosedError"

\* The steps C5 allows.
C5_Step ==
    (AttemptEndStep /\ restart /\ last_exc' \in Exceptions)
      => \/ (NewAttemptStep /\ hc_result' = "running")
         \/ close_requested

\* C5: with restart true, whatever exception ends an attempt, a new attempt
\* follows unless close() was called: no exception ends connect().
C5_RestartRetriesEveryException == [][C5_Step]_vars

\* C5 witness: an exception of the general clause started the second
\* attempt.
C5_Witness ==
    /\ pc = "create"
    /\ attempts = 2
    /\ restart
    /\ ~close_requested
    /\ last_exc = "Exception"

\* C6: once session creation and auth have succeeded (the three loops
\* run), the Connection State gets to OPEN.
C6_ReachesOpen == (pc = "gather") ~> (connection_status = "OPEN")

\* The place of a state in the cycle CLOSED, OPENING, OPEN, CLOSING.
CycleRank(st) ==
    CASE st = "CLOSED"  -> 0
      [] st = "OPENING" -> 1
      [] st = "OPEN"    -> 2
      [] OTHER          -> 3

\* The steps C7 allows.
C7_Step ==
    (pc # "idle" /\ connection_status' # connection_status)
      => \/ CycleRank(connection_status') > CycleRank(connection_status)
         \/ (connection_status = "CLOSING" /\ connection_status' = "CLOSED")

\* C7: while connect() runs, every change of the Connection State moves
\* forward in the cycle or from CLOSING to CLOSED; never from CLOSING back
\* to OPENING.
C7_StateCycle == [][C7_Step]_vars

\* The steps C8 allows.
C8_Step ==
    (pc = "gather" /\ (\E l \in Loops : loops[l] /\ ~loops'[l]))
      => (pc' # "gather" /\ (\A l \in Loops : ~loops'[l]))

\* C8: when one of the three loops of a live attempt exits, the attempt
\* ends and none of its loops runs on.
C8_LoopExitEndsAttempt == [][C8_Step]_vars

\* The session's part of teardown is done: transport closed, heartbeat
\* monitor inactive, dispatch queue stopped.
SessionTornDown ==
    _ws # 0 => /\ socket_closed
               /\ ~loops["keep_alive"]
               /\ ~loops["message_broker"]

\* The steps C9 allows.
C9_Step ==
    pc \in TeardownPcs
      => /\ (http_session = "open" /\ http_session' = "closed")
               => SessionTornDown
         /\ (connection_status # "CLOSED" /\ connection_status' = "CLOSED")
               => (SessionTornDown /\ http_session' = "closed")

\* C9: teardown closes the request transport only after the session's
\* transport is closed and the heartbeat monitor and the dispatch queue are
\* stopped, and sets the state to CLOSED only after all of these.
C9_TeardownOrder == [][C9_Step]_vars

\* The steps C10 allows.
C10_Step ==
    (/\ close_pc = "socket_close"
     /\ close_ws = _ws
     /\ ~socket_closed
     /\ socket_closed')
      => IF _force_closing
         THEN inflight' = 0
         ELSE inflight = 0 /\ pending = 0

\* C10: the close() that closes the stream transport does so, when not
\* forced, only with no handler in flight and no envelope pending; when
\* forced, the handlers in flight are cancelled.
C10_CloseWaitsUnlessForced == [][C10_Step]_vars

C12_Step ==
    (/\ pc = "create"
     /\ AttemptEndStep
     /\ last_exc' = "TimeoutError"
     /\ ~close_requested)
      => (NewAttemptStep /\ hc_result' = "running")

\* C12: whatever restart is, a session creation that runs into the setup
\* timeout, with no close() called, is followed by a new attempt and
\* connect() goes on.
C12_TimeoutRetried == [][C12_Step]_vars

\* C12 witness: with restart false, the first session creation timed out and
\* the second attempt is creating its session.
C12_Witness ==
    /\ pc = "create"
    /\ attempts = 2
    /\ _ws = 0
    /\ ~restart
    /\ ~close_requested
    /\ last_exc = "TimeoutError"

\* The heartbeat loop ends a live attempt with KeepAliveError and close()
\* was not called.
KeepAliveErrorStep ==
    /\ pc = "gather"
    /\ AttemptEndStep
    /\ last_exc' = "KeepAliveError"
    /\ ~close_requested

\* The steps C13 allows.
C13_Step ==
    KeepAliveErrorStep => (NewAttemptStep /\ hc_result' = "running")

\* C13: a KeepAliveError of the heartbeat loop ends only the attempt: a new
\* attempt follows and connect() does not raise.
C13_KeepAliveErrorRetried == [][C13_Step]_vars

\* The steps C13 as amended allows.
C13_AmendedStep ==
    KeepAliveErrorStep
      => IF restart
         THEN NewAttemptStep /\ hc_result' = "running"
         ELSE /\ pc' = "td_http"
              /\ connection_status' = "CLOSING"
              /\ pending_exc' = "SessionCreateError"

\* C13 as amended: a KeepAliveError of the heartbeat loop is retried with a
\* new attempt when restart is true; when restart is false it ends the
\* restart loop: the state is CLOSING and teardown begins with
\* SessionCreateError to be raised.
C13_KeepAliveErrorByRestart == [][C13_AmendedStep]_vars

\* C13 witness: with restart false a KeepAliveError has ended the loop and
\* teardown has begun.
C13_Witness ==
    /\ pc = "td_http"
    /\ ~restart
    /\ ~close_requested
    /\ last_exc = "KeepAliveError"
    /\ pending_exc = "SessionCreateError"

\* The steps C14 allows.
C14_Step ==
    (pc = "http_connect" /\ http_response' = "None")
      => (pc' \in TeardownPcs /\ pending_exc' # "none")

\* C14: when the identity request is rejected (http.connect() gets an
\* error status or an error body), connect() goes to teardown with an error
\* to raise and creates no session.
C14_RejectedCredentialFails == [][C14_Step]_vars

\* The steps C15 allows.
C15_Step ==
    /\ (/\ pc = "idle" /\ calls' = calls + 1
        /\ TokenAccepted(_token')
        /\ http_session' = "None")
          => (/\ hc_result' = "SessionCreateError"
              /\ connection_status' = "CLOSED"
              /\ UNCHANGED _ws)
    /\ (pc = "http_connect" /\ http_response' = "raise")
          => (pc' = "td_http" /\ attempts' = 0 /\ UNCHANGED _ws)
    /\ (/\ pc # "idle" /\ pc' = "idle"
        /\ attempts = 0
        /\ pending_exc = "SessionCreateError")
          => (/\ hc_result' = "SessionCreateError"
              /\ connection_status' = "CLOSED")

\* C15: an exception of http.connect(), raised when the session of the
\* request transport is made or by the identity request, is not retried
\* and no session is created, and the connect() it ends raises
\* SessionCreateError with the state CLOSED.
C15_HttpConnectFailureFatal == [][C15_Step]_vars

\* The steps C16 allows.
C16_Step ==
    (pc # "idle" /\ pc' = "idle" /\ hc_result' = "returned")
      => close_requested

\* C16: connect() returns normally only if close() was called.
C16_NoSilentReturn == [][C16_Step]_vars

\* The steps C16 as amended allows.
C16_AmendedStep ==
    (pc # "idle" /\ pc' = "idle" /\ hc_result' = "returned")
      => (close_requested \/ last_exc = "KeyboardInterrupt")

\* C16 as amended: connect() returns normally only if close() was called
\* or a KeyboardInterrupt was raised inside it.
C16_ReturnOnlyOnCloseOrInterrupt == [][C16_AmendedStep]_vars

\* C16 witness: connect() has returned after a KeyboardInterrupt, with no
\* close() called.
C16_Witness ==
    /\ pc = "idle"
    /\ hc_result = "returned"
    /\ ~close_requested
    /\ last_exc = "KeyboardInterrupt"

\* C18: a token given to connect() is the token connect() validates and
\* stores.
C18_ConnectTokenOverwrites ==
    token_arg # None => (_token = token_arg /\ storage_token = token_arg)

\* C17: a call of the request transport returns the response or fails with
\* HTTPError; an error status, an error body, an empty response, a call
\* while the transport is not ready and a cancelled request end with
\* HTTPError.
C17_RequestReturnsOrRaises ==
    req_case # "none"
      => /\ req_result \in {"response", "json", "HTTPError"}
         /\ (\/ req_case \in {"error_status", "error_body", "empty",
                               "cancelled"}
             \/ ~req_ready)
               => req_result = "HTTPError"

\* C19: in sequential mode the handlers are invoked in the order the
\* envelopes were enqueued (envelope i is the i-th enqueued), and no handler
\* is invoked while the handler of an earlier envelope runs.
C19_SequentialOrder ==
    queue_events
      => /\ \A i \in 1..Len(mb_invoked) : mb_invoked[i] = i
         /\ Cardinality(mb_active) <= 1

\* C19 witness: in sequential mode three envelopes were enqueued while the
\* handler of the first ran, and all three handlers have been invoked.
C19_Witness ==
    /\ queue_events
    /\ Len(mb_invoked) = 3
    /\ mb_received = 3

\* The steps C20 allows.
C20_Step ==
    mb_failed' > mb_failed
      => /\ loops'["message_broker"]
         /\ UNCHANGED <<loops, pc, attempts, hc_result, last_exc, pending_exc,
                        connection_status, _ws>>

\* C20: when a handler ends with an exception, the dispatch loop and the
\* other loops run on and connect() stays where it is: no attempt ends, no
\* restart, nothing raised.
C20_HandlerExceptionContained == [][C20_Step]_vars

\* C20 witness: a handler has raised and, the attempt still live, the
\* dispatch loop has invoked the handler of a later envelope.
C20_Witness ==
    /\ mb_failed > 0
    /\ pc = "gather"
    /\ loops["message_broker"]
    /\ Len(mb_invoked) > mb_failed

\* The steps C21 allows.
C21_Step ==
    \A s \in Stores : CachedEntry(objects', s) = CachedEntry(objects, s)

\* C21: no find_...() call and no assignment to the dict it returned, or to
\* a dict nested in it, changes a cached entry or anything nested in it.
C21_FindReturnsCopy == [][C21_Step]_vars

\* The step creates a Stream Session: create_from_client() has returned and
\* its result is stored in _ws.
SessionCreatedStep == pc = "create" /\ pc' = "send_auth" /\ _ws' # _ws

\* The steps C22 allows.
C22_Step ==
    SessionCreatedStep => (_ws # 0 => ~loops["keep_alive"])

\* C22: when the restart loop creates a session, the heartbeat monitor of
\* the session it replaces is not running.
C22_HeartbeatStoppedBeforeNextSession == [][C22_Step]_vars

\* The steps C23 allows.
C23_Step ==
    /\ SessionCreatedStep
          => /\ ~Malformed(_token)
             /\ http_session = "open" /\ http_ready
             /\ http_response \in {"none", "response", "None"}
             /\ attempts >= 1
    /\ (pc # "send_auth" /\ pc' = "send_auth") => SessionCreatedStep
    /\ (pc # "gather" /\ pc' = "gather")
          => (pc = "send_auth" /\ _ws = created /\ UNCHANGED _ws)
    /\ (\E l \in Loops : ~loops[l] /\ loops'[l])
          => (pc = "send_auth" /\ pc' = "gather")

\* C23: a session is created only after the credential passed validation
\* and the request transport was opened (its session made, its identity
\* request over); send_auth() is called on a session only as it is created;
\* and the three loops start only when send_auth() has returned on the
\* session created in the same attempt.
C23_LifecycleOrder == [][C23_Step]_vars

\* C23 witness: in the second attempt the three loops run on the session
\* that attempt created, with the request transport open.
C23_Witness ==
    /\ pc = "gather"
    /\ attempts = 2
    /\ _ws = created
    /\ \A l \in Loops : loops[l]
    /\ http_session = "open"

\* The steps C24 allows.
C24_Step ==
    /\ (pc = "create" /\ pc' = "send_auth")
          => /\ _ws' > created
             /\ _ws' \notin {_ws, close_ws}
             /\ created' = _ws'
    /\ (pc # "send_auth" /\ pc' = "send_auth") => created' > created
    /\ (pc' = "create" /\ attempts' = attempts + 1)
          => (attempts >= 1 => pc \in AttemptPcs)
    /\ _ws' \in {0, created'}

\* C24: the session an iteration stores in _ws was never stored before
\* (sessions are numbered upwards, created is the last one made);
\* send_auth() is called on a session only in the step that made it, so
\* once; an iteration is entered only when the one before has ended; and
\* _ws refers to the session made last or to none.
C24_SessionNeverReused == [][C24_Step]_vars

\* C24 witness: the second attempt has made its own session and send_auth()
\* is under way on it.
C24_Witness ==
    /\ pc = "send_auth"
    /\ attempts = 2
    /\ _ws = SessionId(calls, 2)
    /\ created = _ws

\* The steps C25 allows.
C25_Step ==
    (AttemptEndStep /\ last_exc' = "WebSocketClosedError")
      => IF connection_status = "OPENING"
         THEN NewAttemptStep /\ connection_status' = "OPENING"
         ELSE /\ pc' = "td_http"
              /\ pending_exc' = "none"
              /\ UNCHANGED <<_ws, created, attempts>>

\* C25: an attempt that ends with WebSocketClosedError is followed by a new
\* attempt exactly when the Connection State is still OPENING; otherwise
\* (close() has set CLOSING) no iteration and no session follow, and
\* teardown begins with nothing to raise.
C25_ClosedErrorRestartsIffOpening == [][C25_Step]_vars

\* C25 witness: close() was called during a live attempt, the attempt ended
\* with WebSocketClosedError and teardown has begun.
C25_Witness ==
    /\ pc = "td_http"
    /\ last_exc = "WebSocketClosedError"
    /\ close_requested
    /\ pending_exc = "none"
    /\ _ws # 0
    /\ attempts = 1

\* C26: a call of the ready request transport whose awaiting handler task
\* is cancelled while the request is under way ends with the cancellation
\* raised in the handler: the call returns nothing to it, so the handler
\* does not go on.
C26_CancellationPropagates ==
    (req_case = "cancelled" /\ req_ready) => req_result = "CancelledError"

\* The step leaves Connection.connect(), by return or by raise; the second
\* case is the connect() that is over before its first await.
ConnectExitStep ==
    \/ pc # "idle" /\ pc' = "idle"
    \/ pc = "idle" /\ calls' = calls + 1 /\ ~Malformed(_token') /\ pc' = "idle"

\* gateway/__init__.py 82-89: the default properties, in the next state.
DefaultPropertiesNext ==
    /\ connection_status' = "CLOSED"
    /\ _ws' = 0
    /\ ~_closing' /\ ~_closed' /\ ~_force_closing'

\* The steps C27 allows.
C27_Step == ConnectExitStep => DefaultPropertiesNext

\* C27: whenever Connection.connect() is left, the Connection has its
\* default properties: state CLOSED, no session, and the closing, closed
\* and force-closing flags false (the ready flag is never set by
\* Connection and stays false).
C27_ExitRestoresDefaults == [][C27_Step]_vars

\* The steps C28 allows.
C28_Step ==
    /\ (pc = "td_http" /\ pc' # "td_http")
          => /\ pc' \in {"td_keep_alive", "td_wait"}
             /\ hc_result' = "running"
    /\ (pc = "idle" /\ calls' = calls + 1 /\ http_session' = "None")
          => connection_status' = "CLOSED"

\* C28: however http.close() ends in teardown, teardown goes on to stop the
\* heartbeat monitor and the dispatch queue and to set the state CLOSED:
\* connect() is not left from the await of http.close(), and the connect()
\* whose transport never got a session still ends with the state CLOSED.
C28_TeardownSurvivesHttpCloseFailure == [][C28_Step]_vars

\* The steps C29 allows.
C29_Step ==
    (/\ pc = "idle"
     /\ _ws = 0
     /\ connection_status = "CLOSED"
     /\ calls' = calls)
      => connection_status' = "CLOSED"

\* C29: while no connect() runs and none is started, with the state CLOSED
\* and no session, the state stays CLOSED whatever is called: a close(),
\* once or repeatedly, leaves it CLOSED.
C29_IdleCloseKeepsClosed == [][C29_Step]_vars

\* The steps C30 allows.
C30_Step ==
    /\ (pc = "http_connect" /\ pc' # "http_connect")
          => (http_ready' <=> http_response' \in {"response", "None"})
    /\ (pc = "td_http" /\ pc' # "td_http") => ~http_ready'
    /\ (pc = "idle" /\ calls' = calls + 1 /\ http_session' = "None")
          => ~http_ready'
    /\ http_ready' => http_session' = "open"
    /\ (req_case' # "none" /\ ~req_ready') => req_result' = "None"

\* C30: http_ready is true after an http.connect() that returned and false
\* after one that failed; it is false after every http.close(); it is true
\* only while the transport's session is open; and a call made while it is
\* false returns None.
C30_HttpReadyTracksConnect == [][C30_Step]_vars

====
